---- MODULE Spec2Model ----
(***************************************************************************)
(* Media-Refinery: the saga execution engine                               *)
(* (app/services/execution_service.py), the pipeline orchestrator          *)
(* (app/core/orchestrator.py), the quality guardrail and the supervisor as *)
(* state machines.                                                         *)
(*                                                                         *)
(* SagaSpec  : concurrent saga attempts (_execute_normalization_plan),     *)
(*             WAL recovery passes (recover_unfinished_tmp_files) and      *)
(*             worker crashes over a shared database and file system.      *)
(* OrchSpec  : PipelineOrchestrator.run_forever: startup recovery, poll    *)
(*             cycles, the dispatch tasks they fan out and their joins.    *)
(* SemSpec   : the same orchestrator under a load that fills both of its   *)
(*             semaphores.                                                 *)
(* DispatchSpec : the same orchestrator over one item that comes to its    *)
(*             dispatch with any retry_count.                              *)
(* GuardSpec : VMAFGuardrailService.check_and_update_quality               *)
(*             (app/services/vmaf_guardrail_service.py) for every kind of  *)
(*             ffmpeg_args and probe score.                                *)
(* SupSpec   : DaemonSupervisor.run (app/core/supervisor.py) around the    *)
(*             orchestrator: health checks, backoff, shutdown signal.      *)
(* BackoffSpec : _backoff_wait and the reset of _backoff in any order.     *)
(* CoordSpec : PipelineCoordinator (app/core/pipeline.py): enqueue, the    *)
(*             worker loop, process and stop.                              *)
(* QualitySpec : the guardrail called on the plan of an executing item     *)
(*             while the orchestrator runs.                                *)
(***************************************************************************)
EXTENDS Integers, Sequences, FiniteSets, TLC

(* ---- bounds of the model ---- *)
MaxPlans == 2
MaxAttempts == 2
MaxCrashes == 1
MaxRecoveries == 1

Plans == 1..MaxPlans
Attempts == 1..MaxAttempts

VARIABLES
    plan_status,    \* NormalizationPlan.plan_status, per plan (database)
    execution_log,  \* NormalizationPlan.execution_log, per plan (database)
    wal,            \* saga_file_move_log: sequence of rows [plan, status]
    dest,           \* content of the file at plan.target_path (output_file)
    tmp,            \* content of the file at output_file + ".tmp"
    lock,           \* holder of the FileLock at output_file + ".lock", 0 = free
    pc,             \* position of each saga attempt in do_work
    plan,           \* the plan an attempt executes, 0 before it starts
    saga_log,       \* the WAL row an attempt created (index into wal), 0 = none
    wloc,           \* where the file an attempt has open for writing now lives
    srcc,           \* content the attempt's copy reads from src
    err,            \* str(e) of the exception an attempt is handling
    ev,             \* history: the durable effects of an attempt, in order
    rec,            \* the recovery pass: [pc, logs]; seen is history: the
                    \* orphan rows the pass's query returned
    crashes,        \* crashes so far
    passes,         \* recovery passes started so far
    state,          \* MediaItem.state, per item
    retry_count,    \* item.retry_count, per item
    celery_task_id, \* whether item.celery_task_id is set, per item
    opc,            \* position of run_forever: start, poll, gather
    tasks,          \* the dispatch tasks: [item, info, cycle, pc]
    cycle,          \* poll cycles started so far
    raised,         \* a task of the current gather has raised
    state0,         \* history: item states the current cycle's query saw
    fails,          \* history: failed dispatches of an item since its last success
    guard,          \* one call of check_and_update_quality: its position, the
                    \* plan object, the probe's result and the database row
    running,        \* PipelineOrchestrator.running
    coord,          \* PipelineCoordinator: running, the queue, the worker
                    \* loop's position and media id, MediaItem.state per
                    \* media id; history: stop() has returned, the ids that
                    \* were queued when it did, the ids enqueued after it
    sup             \* DaemonSupervisor: position of run, _shutdown, _backoff,
                    \* crash.log; history: the health check's finding, the
                    \* waits slept, the cycle count when shutdown ran

sagaVars == <<plan_status, execution_log, wal, dest, tmp, lock, pc, plan,
              saga_log, wloc, srcc, err, ev, rec, crashes, passes>>

orchVars == <<state, retry_count, celery_task_id, opc, tasks, cycle, raised,
              state0, fails>>

supVars == <<running, sup>>

vars == <<sagaVars, orchVars, guard, supVars, coord>>

(* ---- files ---- *)
Content == {"none", "empty", "partial", "full"}

\* Path.exists()
Exists(c) == c # "none"

\* Path.stat().st_size > 0
NonEmpty(c) == c \in {"partial", "full"}

\* src = Path(plan.target_path): the source path is the destination path
SrcContent(p) == dest[p]

\* os.rename(tmp_output_file, output_file): the file moves, and with it any
\* descriptor a running copy holds on it; a file it replaces is unlinked
MoveWloc(p) ==
    [a \in Attempts |->
        IF plan[a] = p /\ wloc[a] = "tmp" THEN "dest"
        ELSE IF plan[a] = p /\ wloc[a] = "dest" THEN "gone"
        ELSE wloc[a]]

\* os.remove(path): a descriptor held on the file keeps an unlinked file
UnlinkWloc(p, which) ==
    [a \in Attempts |->
        IF plan[a] = p /\ wloc[a] = which THEN "gone" ELSE wloc[a]]

(* ---- WAL ---- *)
PreparedRows == {r \in 1..Len(wal) : wal[r].status = "prepared"}

RECURSIVE SortedSeq(_)
SortedSeq(S) ==
    IF S = {} THEN <<>>
    ELSE LET m == CHOOSE x \in S : \A y \in S : x <= y
         IN <<m>> \o SortedSeq(S \ {m})

SetStatus(r, s) == [wal EXCEPT ![r].status = s]

Live(a) == pc[a] \notin {"idle", "returned", "raised", "crashed"}

Ended(a) == pc[a] \in {"returned", "raised"}

\* a prepared row nobody is working on: no running attempt created it
Orphan(r) == \A a \in Attempts : saga_log[a] = r => pc[a] = "crashed"

RecIdle == [pc |-> "idle", logs |-> <<>>, seen |-> {}]

\* check_and_update_quality is not being called
GuardIdle == guard = [pc |-> "off"]

\* no PipelineCoordinator exists
CoordAbsent == coord = [wpc |-> "off"]

\* no DaemonSupervisor exists
SupAbsent == sup = [pc |-> "off"]

\* run_forever was called directly and has set self.running
Unsupervised == SupAbsent /\ CoordAbsent /\ running = TRUE

\* the orchestrator is not running
OrchIdle ==
    /\ SupAbsent
    /\ CoordAbsent
    /\ running = FALSE
    /\ state = <<>>
    /\ retry_count = <<>>
    /\ celery_task_id = <<>>
    /\ opc = "off"
    /\ tasks = {}
    /\ cycle = 0
    /\ raised = FALSE
    /\ state0 = <<>>
    /\ fails = <<>>

(* ---- initial state: what a worker finds at start ---- *)
\* A destination file may already exist (empty or complete), and a plan may
\* carry the residue of an earlier unclean shutdown: a prepared WAL row whose
\* temp file was written and never renamed.
Residue == [Plans -> BOOLEAN]

\* plans are interchangeable: the initial states are listed up to renaming
InitRank(d, r) ==
    IF r THEN 0 ELSE IF d = "none" THEN 1 ELSE IF d = "empty" THEN 2 ELSE 3

InitWal(res) ==
    LET ps == SortedSeq({p \in Plans : res[p]})
    IN [i \in 1..Len(ps) |-> [plan |-> ps[i], status |-> "prepared"]]

SagaInit ==
    /\ \E res \in Residue :
         /\ wal = InitWal(res)
         /\ tmp = [p \in Plans |-> IF res[p] THEN "full" ELSE "none"]
         /\ dest \in [Plans -> {"none", "empty", "full"}]
         /\ \A p \in Plans : res[p] => dest[p] = "none"
         /\ \A p, q \in Plans : p < q => InitRank(dest[p], res[p]) <= InitRank(dest[q], res[q])
         /\ plan_status = [p \in Plans |-> IF res[p] THEN "executing" ELSE "draft"]
    /\ execution_log = [p \in Plans |-> ""]
    /\ lock = [p \in Plans |-> 0]
    /\ pc = [a \in Attempts |-> "idle"]
    /\ plan = [a \in Attempts |-> 0]
    /\ saga_log = [a \in Attempts |-> 0]
    /\ wloc = [a \in Attempts |-> "none"]
    /\ srcc = [a \in Attempts |-> "none"]
    /\ err = [a \in Attempts |-> ""]
    /\ ev = [a \in Attempts |-> <<>>]
    /\ rec = RecIdle
    /\ crashes = 0
    /\ passes = 0
    /\ OrchIdle
    /\ GuardIdle

(* ---- one saga attempt: _execute_normalization_plan / do_work ---- *)
Goto(a, l) == pc' = [pc EXCEPT ![a] = l]

Log(a, e) == ev' = [ev EXCEPT ![a] = Append(@, e)]

\* a with block that forgets the lock (wrong on purpose: C10_LockReleased
\* must reject it)
ReleaseNever(a) == UNCHANGED lock

Release(a) == lock' = [lock EXCEPT ![plan[a]] = IF @ = a THEN 0 ELSE @]

\* the keys of a plan dictionary that NormalizationPlanSchema has no
\* default for; a dictionary is modelled by the set of those it carries
RequiredKeys == {"id", "media_item_id", "target_path"}

PlanDicts == SUBSET RequiredKeys

\* NormalizationPlanSchema(**plan_dict) does not raise
ValidPlan(d) == RequiredKeys \subseteq d

\* an entry point that lets the validation error out (wrong on purpose:
\* C38_InvalidPlanReturns must reject it)
StartInvalidRaises(a) ==
    /\ UNCHANGED <<orchVars, guard, supVars, coord>>
    /\ pc[a] = "idle"
    /\ \A b \in Attempts : b < a => pc[b] # "idle"
    /\ \E d \in PlanDicts : ~ValidPlan(d)
    /\ Goto(a, "raised")
    /\ err' = [err EXCEPT ![a] = "Invalid NormalizationPlan"]
    /\ UNCHANGED <<plan_status, execution_log, wal, dest, tmp, lock, plan,
                   saga_log, wloc, srcc, ev, rec, crashes, passes>>

\* execute_normalization_plan(plan_dict) with a dictionary the schema
\* rejects: the error is logged and the entry point returns
StartInvalid(a) ==
    /\ UNCHANGED <<orchVars, guard, supVars, coord>>
    /\ pc[a] = "idle"
    /\ \A b \in Attempts : b < a => pc[b] # "idle"
    /\ \E d \in PlanDicts : ~ValidPlan(d)
    /\ Goto(a, "returned")
    /\ err' = [err EXCEPT ![a] = "Invalid NormalizationPlan"]
    /\ UNCHANGED <<plan_status, execution_log, wal, dest, tmp, lock, plan,
                   saga_log, wloc, srcc, ev, rec, crashes, passes>>

\* execute_normalization_plan(plan_dict) with a valid plan
Start(a, p) ==
    /\ UNCHANGED <<orchVars, guard, supVars, coord>>
    /\ pc[a] = "idle"
    /\ \A b \in Attempts : b < a => pc[b] # "idle"
    /\ plan' = [plan EXCEPT ![a] = p]
    /\ Goto(a, "set_executing")
    /\ UNCHANGED <<plan_status, execution_log, wal, dest, tmp, lock, saga_log,
                   wloc, srcc, err, ev, rec, crashes, passes>>

\* update(DBPlan).values(plan_status=executing); commit
SetExecuting(a) ==
    /\ UNCHANGED <<orchVars, guard, supVars, coord>>
    /\ pc[a] = "set_executing"
    /\ \/ /\ plan_status' = [plan_status EXCEPT ![plan[a]] = "executing"]
          /\ Goto(a, "acquire")
          /\ UNCHANGED err
       \/ \* the commit raises: rollback and return
          /\ Goto(a, "returned")
          /\ err' = [err EXCEPT ![a] = "db"]
          /\ UNCHANGED plan_status
    /\ UNCHANGED <<execution_log, wal, dest, tmp, lock, plan, saga_log, wloc,
                   srcc, ev, rec, crashes, passes>>

\* an acquire that does not look at the lock (wrong on purpose:
\* C35_MutualExclusion must reject it)
AcquireAnyway(a) ==
    /\ UNCHANGED <<orchVars, guard, supVars, coord>>
    /\ pc[a] = "acquire"
    /\ lock' = [lock EXCEPT ![plan[a]] = a]
    /\ Goto(a, "idem_check")
    /\ UNCHANGED <<plan_status, execution_log, wal, dest, tmp, plan, saga_log,
                   wloc, srcc, err, ev, rec, crashes, passes>>

\* with lock.acquire(timeout=10): the lock is free
Acquire(a) ==
    /\ UNCHANGED <<orchVars, guard, supVars, coord>>
    /\ pc[a] = "acquire"
    /\ lock[plan[a]] = 0
    /\ lock' = [lock EXCEPT ![plan[a]] = a]
    /\ Goto(a, "idem_check")
    /\ UNCHANGED <<plan_status, execution_log, wal, dest, tmp, plan, saga_log,
                   wloc, srcc, err, ev, rec, crashes, passes>>

\* lock.acquire(timeout=10) raises Timeout: another attempt held the lock
AcquireTimeout(a) ==
    /\ UNCHANGED <<orchVars, guard, supVars, coord>>
    /\ pc[a] = "acquire"
    /\ lock[plan[a]] # 0
    /\ Goto(a, "timeout_commit")
    /\ err' = [err EXCEPT ![a] = "Lock timeout"]
    /\ UNCHANGED <<plan_status, execution_log, wal, dest, tmp, lock, plan,
                   saga_log, wloc, srcc, ev, rec, crashes, passes>>

\* a Timeout handler that leaves the plan as it was (wrong on purpose:
\* C9_LockTimeoutFailsClosed must reject it)
TimeoutCommitNoFail(a) ==
    /\ UNCHANGED <<orchVars, guard, supVars, coord>>
    /\ pc[a] = "timeout_commit"
    /\ Goto(a, "returned")
    /\ UNCHANGED <<plan_status, execution_log, wal, dest, tmp, lock, plan,
                   saga_log, wloc, srcc, err, ev, rec, crashes, passes>>

\* except Timeout: plan_status=failed, execution_log="Lock timeout"; commit
TimeoutCommit(a) ==
    /\ UNCHANGED <<orchVars, guard, supVars, coord>>
    /\ pc[a] = "timeout_commit"
    /\ plan_status' = [plan_status EXCEPT ![plan[a]] = "failed"]
    /\ execution_log' = [execution_log EXCEPT ![plan[a]] = "Lock timeout"]
    /\ Goto(a, "returned")
    /\ UNCHANGED <<wal, dest, tmp, lock, plan, saga_log, wloc, srcc, err, ev,
                   rec, crashes, passes>>

\* if output_file.exists() and output_file.stat().st_size > 0
IdemCheck(a) ==
    /\ UNCHANGED <<orchVars, guard, supVars, coord>>
    /\ pc[a] = "idem_check"
    /\ IF Exists(dest[plan[a]]) /\ NonEmpty(dest[plan[a]])
       THEN Goto(a, "skip_commit") /\ Log(a, "skip")
       ELSE Goto(a, "wal_prepare") /\ UNCHANGED ev
    /\ UNCHANGED <<plan_status, execution_log, wal, dest, tmp, lock, plan,
                   saga_log, wloc, srcc, err, rec, crashes, passes>>

\* the skip: plan_status=completed; commit; return (the with block releases)
SkipCommit(a) ==
    /\ UNCHANGED <<orchVars, guard, supVars, coord>>
    /\ pc[a] = "skip_commit"
    /\ \/ /\ plan_status' = [plan_status EXCEPT ![plan[a]] = "completed"]
          /\ Log(a, "plan_completed")
          /\ Goto(a, "returned")
          /\ UNCHANGED err
       \/ \* the commit raises: the exception leaves the with block
          /\ Goto(a, "outer_rm")
          /\ err' = [err EXCEPT ![a] = "db"]
          /\ UNCHANGED <<plan_status, ev>>
    /\ Release(a)
    /\ UNCHANGED <<execution_log, wal, dest, tmp, plan, saga_log, wloc, srcc,
                   rec, crashes, passes>>

\* session.add(SagaFileMoveLog(status=prepared)); commit
WalPrepare(a) ==
    /\ UNCHANGED <<orchVars, guard, supVars, coord>>
    /\ pc[a] = "wal_prepare"
    /\ \/ /\ wal' = Append(wal, [plan |-> plan[a], status |-> "prepared"])
          /\ saga_log' = [saga_log EXCEPT ![a] = Len(wal) + 1]
          /\ Log(a, "wal_prepared")
          /\ Goto(a, "copy_begin")
          /\ UNCHANGED <<lock, err>>
       \/ /\ Goto(a, "outer_rm")
          /\ err' = [err EXCEPT ![a] = "db"]
          /\ Release(a)
          /\ UNCHANGED <<wal, saga_log, ev>>
    /\ UNCHANGED <<plan_status, execution_log, dest, tmp, plan, wloc, srcc,
                   rec, crashes, passes>>

\* shutil.copy2(src, tmp_output_file): open src, create or truncate the temp
\* file and start writing
CopyBegin(a) ==
    /\ UNCHANGED <<orchVars, guard, supVars, coord>>
    /\ pc[a] = "copy_begin"
    /\ LET p == plan[a] IN
       IF ~Exists(SrcContent(p))
       THEN /\ Goto(a, "fail_commit_rm")
            /\ err' = [err EXCEPT ![a] = "copy"]
            /\ UNCHANGED <<tmp, wloc, srcc, ev>>
       ELSE /\ tmp' = [tmp EXCEPT ![p] =
                         IF NonEmpty(SrcContent(p)) THEN "partial" ELSE "empty"]
            /\ wloc' = [UnlinkWloc(p, "none") EXCEPT ![a] = "tmp"]
            /\ srcc' = [srcc EXCEPT ![a] = SrcContent(p)]
            /\ Log(a, "tmp_write")
            /\ Goto(a, "copy_end")
            /\ UNCHANGED err
    /\ UNCHANGED <<plan_status, execution_log, wal, dest, lock, plan,
                   saga_log, rec, crashes, passes>>

\* shutil.copy2 finishes: the last bytes reach the open file, then copystat
\* needs the temp path, which raises when the file is no longer there
CopyEnd(a) ==
    /\ UNCHANGED <<orchVars, guard, supVars, coord>>
    /\ pc[a] = "copy_end"
    /\ LET p == plan[a] IN
       CASE wloc[a] = "tmp" ->
              /\ tmp' = [tmp EXCEPT ![p] = srcc[a]]
              /\ Goto(a, "verify")
              /\ UNCHANGED <<dest, err>>
         [] wloc[a] = "dest" ->
              /\ dest' = [dest EXCEPT ![p] = srcc[a]]
              /\ Goto(a, "fail_commit_rm")
              /\ err' = [err EXCEPT ![a] = "copy"]
              /\ UNCHANGED tmp
         [] OTHER ->
              /\ Goto(a, "fail_commit_rm")
              /\ err' = [err EXCEPT ![a] = "copy"]
              /\ UNCHANGED <<dest, tmp>>
    /\ wloc' = [wloc EXCEPT ![a] = "none"]
    /\ srcc' = [srcc EXCEPT ![a] = "none"]
    /\ UNCHANGED <<plan_status, execution_log, wal, lock, plan, saga_log,
                   ev, rec, crashes, passes>>

\* if not tmp_output_file.exists() or tmp_output_file.stat().st_size == 0
Verify(a) ==
    /\ UNCHANGED <<orchVars, guard, supVars, coord>>
    /\ pc[a] = "verify"
    /\ IF ~Exists(tmp[plan[a]]) \/ ~NonEmpty(tmp[plan[a]])
       THEN /\ Goto(a, "fail_commit_keep")
            /\ err' = [err EXCEPT ![a] = "tmp file missing or empty"]
       ELSE /\ Goto(a, "ffmpeg")
            /\ UNCHANGED err
    /\ UNCHANGED <<plan_status, execution_log, wal, dest, tmp, lock, plan,
                   saga_log, wloc, srcc, ev, rec, crashes, passes>>

\* await run_ffmpeg(): returncode 0, or it raises
Ffmpeg(a) ==
    /\ UNCHANGED <<orchVars, guard, supVars, coord>>
    /\ pc[a] = "ffmpeg"
    /\ \/ /\ Goto(a, "rename")
          /\ UNCHANGED err
       \/ /\ Goto(a, "fail_commit_rm")
          /\ err' = [err EXCEPT ![a] = "ffmpeg failed"]
    /\ UNCHANGED <<plan_status, execution_log, wal, dest, tmp, lock, plan,
                   saga_log, wloc, srcc, ev, rec, crashes, passes>>

\* a rename that goes straight on to plan_status=completed, without the WAL
\* commit (wrong on purpose: C1_SagaOrder must reject it)
RenameThenComplete(a) ==
    /\ UNCHANGED <<orchVars, guard, supVars, coord>>
    /\ pc[a] = "rename"
    /\ LET p == plan[a] IN
       IF Exists(tmp[p])
       THEN /\ dest' = [dest EXCEPT ![p] = tmp[p]]
            /\ tmp' = [tmp EXCEPT ![p] = "none"]
            /\ wloc' = MoveWloc(p)
            /\ Log(a, "rename")
            /\ Goto(a, "plan_complete")
            /\ UNCHANGED err
       ELSE /\ Goto(a, "fail_commit_rm")
            /\ err' = [err EXCEPT ![a] = "rename"]
            /\ UNCHANGED <<dest, tmp, wloc, ev>>
    /\ UNCHANGED <<plan_status, execution_log, wal, lock, plan, saga_log,
                   srcc, rec, crashes, passes>>

\* os.rename(tmp_output_file, output_file)
Rename(a) ==
    /\ UNCHANGED <<orchVars, guard, supVars, coord>>
    /\ pc[a] = "rename"
    /\ LET p == plan[a] IN
       IF Exists(tmp[p])
       THEN /\ dest' = [dest EXCEPT ![p] = tmp[p]]
            /\ tmp' = [tmp EXCEPT ![p] = "none"]
            /\ wloc' = MoveWloc(p)
            /\ Log(a, "rename")
            /\ Goto(a, "wal_commit")
            /\ UNCHANGED err
       ELSE /\ Goto(a, "fail_commit_rm")
            /\ err' = [err EXCEPT ![a] = "rename"]
            /\ UNCHANGED <<dest, tmp, wloc, ev>>
    /\ UNCHANGED <<plan_status, execution_log, wal, lock, plan, saga_log,
                   srcc, rec, crashes, passes>>

\* saga_log.status = committed; commit
WalCommit(a) ==
    /\ UNCHANGED <<orchVars, guard, supVars, coord>>
    /\ pc[a] = "wal_commit"
    /\ \/ /\ wal' = SetStatus(saga_log[a], "committed")
          /\ Log(a, "wal_committed")
          /\ Goto(a, "plan_complete")
          /\ UNCHANGED <<lock, err>>
       \/ /\ Goto(a, "outer_rm")
          /\ err' = [err EXCEPT ![a] = "db"]
          /\ Release(a)
          /\ UNCHANGED <<wal, ev>>
    /\ UNCHANGED <<plan_status, execution_log, dest, tmp, plan, saga_log,
                   wloc, srcc, rec, crashes, passes>>

\* plan_status=completed; commit; the with block ends and releases the lock
PlanComplete(a) ==
    /\ UNCHANGED <<orchVars, guard, supVars, coord>>
    /\ pc[a] = "plan_complete"
    /\ \/ /\ plan_status' = [plan_status EXCEPT ![plan[a]] = "completed"]
          /\ Log(a, "plan_completed")
          /\ Goto(a, "recovery_call")
          /\ UNCHANGED err
       \/ /\ Goto(a, "outer_rm")
          /\ err' = [err EXCEPT ![a] = "db"]
          /\ UNCHANGED <<plan_status, ev>>
    /\ Release(a)
    /\ UNCHANGED <<execution_log, wal, dest, tmp, plan, saga_log, wloc, srcc,
                   rec, crashes, passes>>

\* asyncio.run(recover_unfinished_tmp_files()) inside the running event loop
\* raises RuntimeError, which is caught and logged: no pass starts here
RecoveryCall(a) ==
    /\ UNCHANGED <<orchVars, guard, supVars, coord>>
    /\ pc[a] = "recovery_call"
    /\ Goto(a, "returned")
    /\ UNCHANGED <<plan_status, execution_log, wal, dest, tmp, lock, plan,
                   saga_log, wloc, srcc, err, ev, rec, crashes, passes>>

\* the except branches of copy, transcode and rename: saga_log.status =
\* failed; commit
FailCommitRm(a) ==
    /\ UNCHANGED <<orchVars, guard, supVars, coord>>
    /\ pc[a] = "fail_commit_rm"
    /\ wal' = SetStatus(saga_log[a], "failed")
    /\ Log(a, "wal_failed")
    /\ Goto(a, "fail_rm")
    /\ UNCHANGED <<plan_status, execution_log, dest, tmp, lock, plan,
                   saga_log, wloc, srcc, err, rec, crashes, passes>>

\* a rollback that leaves the temp file where it is (wrong on purpose:
\* C11_ContentFailureRollback must reject it)
FailRmKeepTmp(a) ==
    /\ UNCHANGED <<orchVars, guard, supVars, coord>>
    /\ pc[a] = "fail_rm"
    /\ Release(a)
    /\ Goto(a, "outer_rm")
    /\ UNCHANGED <<plan_status, execution_log, wal, dest, tmp, plan, saga_log,
                   wloc, srcc, err, ev, rec, crashes, passes>>

\* if tmp_output_file.exists(): os.remove(tmp_output_file); raise
FailRm(a) ==
    /\ UNCHANGED <<orchVars, guard, supVars, coord>>
    /\ pc[a] = "fail_rm"
    /\ LET p == plan[a] IN
       IF Exists(tmp[p])
       THEN /\ tmp' = [tmp EXCEPT ![p] = "none"]
            /\ wloc' = UnlinkWloc(p, "tmp")
            /\ Log(a, "tmp_remove")
       ELSE UNCHANGED <<tmp, wloc, ev>>
    /\ Release(a)
    /\ Goto(a, "outer_rm")
    /\ UNCHANGED <<plan_status, execution_log, wal, dest, plan, saga_log,
                   srcc, err, rec, crashes, passes>>

\* the verification failure: saga_log.status = failed; commit; raise
FailCommitKeep(a) ==
    /\ UNCHANGED <<orchVars, guard, supVars, coord>>
    /\ pc[a] = "fail_commit_keep"
    /\ wal' = SetStatus(saga_log[a], "failed")
    /\ Log(a, "wal_failed")
    /\ Release(a)
    /\ Goto(a, "outer_rm")
    /\ UNCHANGED <<plan_status, execution_log, dest, tmp, plan, saga_log,
                   wloc, srcc, err, rec, crashes, passes>>

\* except Exception: if output_file.exists(): os.remove(output_file)
OuterRm(a) ==
    /\ UNCHANGED <<orchVars, guard, supVars, coord>>
    /\ pc[a] = "outer_rm"
    /\ LET p == plan[a] IN
       IF Exists(dest[p])
       THEN /\ dest' = [dest EXCEPT ![p] = "none"]
            /\ wloc' = UnlinkWloc(p, "dest")
            /\ Log(a, "dest_remove")
       ELSE UNCHANGED <<dest, wloc, ev>>
    /\ Goto(a, "outer_commit")
    /\ UNCHANGED <<plan_status, execution_log, wal, tmp, lock, plan, saga_log,
                   srcc, err, rec, crashes, passes>>

\* plan_status=failed, execution_log=str(e); commit; raise
OuterCommit(a) ==
    /\ UNCHANGED <<orchVars, guard, supVars, coord>>
    /\ pc[a] = "outer_commit"
    /\ plan_status' = [plan_status EXCEPT ![plan[a]] = "failed"]
    /\ execution_log' = [execution_log EXCEPT ![plan[a]] = err[a]]
    /\ Goto(a, "raised")
    /\ UNCHANGED <<wal, dest, tmp, lock, plan, saga_log, wloc, srcc, err, ev,
                   rec, crashes, passes>>

\* try: asyncio.run(do_work()) / except Exception: logger.error(...): what
\* the caller of execute_normalization_plan gets once do_work has returned
\* or raised
EntryOutcome(a) ==
    CASE pc[a] = "returned" -> "returns None"
      [] pc[a] = "raised" -> "returns None"
      [] OTHER -> "running"

\* the worker process running the attempt dies: the operating system drops
\* its file lock and its descriptors; files and committed rows stay
Crash(a) ==
    /\ UNCHANGED <<orchVars, guard, supVars, coord>>
    /\ Live(a)
    /\ crashes < MaxCrashes
    /\ crashes' = crashes + 1
    /\ Goto(a, "crashed")
    /\ Release(a)
    /\ wloc' = [wloc EXCEPT ![a] = "none"]
    /\ srcc' = [srcc EXCEPT ![a] = "none"]
    /\ err' = [err EXCEPT ![a] = ""]
    /\ ev' = [ev EXCEPT ![a] = <<>>]
    /\ UNCHANGED <<plan_status, execution_log, wal, dest, tmp, plan, saga_log,
                   rec, passes>>


(* ---- the recovery pass: recover_unfinished_tmp_files ---- *)
\* select(SagaFileMoveLog).where(status == prepared); logs = ....all()
RecStart ==
    /\ UNCHANGED <<orchVars, guard, supVars, coord>>
    /\ rec.pc = "idle"
    /\ passes < MaxRecoveries
    /\ passes' = passes + 1
    /\ rec' = [pc |-> "check", logs |-> SortedSeq(PreparedRows),
               seen |-> {r \in PreparedRows : Orphan(r)}]
    /\ UNCHANGED <<plan_status, execution_log, wal, dest, tmp, lock, pc, plan,
                   saga_log, wloc, srcc, err, ev, crashes>>

\* for log in logs: if tmp_path.exists() and tmp_path.stat().st_size > 0
RecCheck ==
    /\ UNCHANGED <<orchVars, guard, supVars, coord>>
    /\ rec.pc = "check"
    /\ IF rec.logs = <<>>
       THEN rec' = [rec EXCEPT !.pc = "idle"]
       ELSE LET p == wal[Head(rec.logs)].plan IN
            IF Exists(tmp[p]) /\ NonEmpty(tmp[p])
            THEN rec' = [rec EXCEPT !.pc = "rename"]
            ELSE rec' = [rec EXCEPT !.pc = "clean_commit"]
    /\ UNCHANGED <<plan_status, execution_log, wal, dest, tmp, lock, pc, plan,
                   saga_log, wloc, srcc, err, ev, crashes, passes>>

\* os.rename(tmp_path, dest_path)
RecRename ==
    /\ UNCHANGED <<orchVars, guard, supVars, coord>>
    /\ rec.pc = "rename"
    /\ LET p == wal[Head(rec.logs)].plan IN
       IF Exists(tmp[p])
       THEN /\ dest' = [dest EXCEPT ![p] = tmp[p]]
            /\ tmp' = [tmp EXCEPT ![p] = "none"]
            /\ wloc' = MoveWloc(p)
            /\ rec' = [rec EXCEPT !.pc = "commit"]
       ELSE /\ rec' = [rec EXCEPT !.pc = "fail_commit"]
            /\ UNCHANGED <<dest, tmp, wloc>>
    /\ UNCHANGED <<plan_status, execution_log, wal, lock, pc, plan, saga_log,
                   srcc, err, ev, crashes, passes>>

\* log.status = committed; commit
RecCommit ==
    /\ UNCHANGED <<orchVars, guard, supVars, coord>>
    /\ rec.pc = "commit"
    /\ wal' = SetStatus(Head(rec.logs), "committed")
    /\ rec' = [rec EXCEPT !.pc = "check", !.logs = Tail(rec.logs)]
    /\ UNCHANGED <<plan_status, execution_log, dest, tmp, lock, pc, plan,
                   saga_log, wloc, srcc, err, ev, crashes, passes>>

\* log.status = cleaned; commit
RecCleanCommit ==
    /\ UNCHANGED <<orchVars, guard, supVars, coord>>
    /\ rec.pc = "clean_commit"
    /\ wal' = SetStatus(Head(rec.logs), "cleaned")
    /\ rec' = [rec EXCEPT !.pc = "clean_rm"]
    /\ UNCHANGED <<plan_status, execution_log, dest, tmp, lock, pc, plan,
                   saga_log, wloc, srcc, err, ev, crashes, passes>>

\* if tmp_path.exists(): os.remove(tmp_path)
RecCleanRm ==
    /\ UNCHANGED <<orchVars, guard, supVars, coord>>
    /\ rec.pc = "clean_rm"
    /\ LET p == wal[Head(rec.logs)].plan IN
       IF Exists(tmp[p])
       THEN /\ tmp' = [tmp EXCEPT ![p] = "none"]
            /\ wloc' = UnlinkWloc(p, "tmp")
       ELSE UNCHANGED <<tmp, wloc>>
    /\ rec' = [rec EXCEPT !.pc = "check", !.logs = Tail(rec.logs)]
    /\ UNCHANGED <<plan_status, execution_log, wal, dest, lock, pc, plan,
                   saga_log, srcc, err, ev, crashes, passes>>

\* except Exception: log.status = failed; commit
RecFailCommit ==
    /\ UNCHANGED <<orchVars, guard, supVars, coord>>
    /\ rec.pc = "fail_commit"
    /\ wal' = SetStatus(Head(rec.logs), "failed")
    /\ rec' = [rec EXCEPT !.pc = "check", !.logs = Tail(rec.logs)]
    /\ UNCHANGED <<plan_status, execution_log, dest, tmp, lock, pc, plan,
                   saga_log, wloc, srcc, err, ev, crashes, passes>>

SagaNext ==
    \/ \E a \in Attempts, p \in Plans : Start(a, p)
    \/ \E a \in Attempts : StartInvalid(a)
    \/ \E a \in Attempts : SetExecuting(a)
    \/ \E a \in Attempts : Acquire(a)
    \/ \E a \in Attempts : AcquireTimeout(a)
    \/ \E a \in Attempts : TimeoutCommit(a)
    \/ \E a \in Attempts : IdemCheck(a)
    \/ \E a \in Attempts : SkipCommit(a)
    \/ \E a \in Attempts : WalPrepare(a)
    \/ \E a \in Attempts : CopyBegin(a)
    \/ \E a \in Attempts : CopyEnd(a)
    \/ \E a \in Attempts : Verify(a)
    \/ \E a \in Attempts : Ffmpeg(a)
    \/ \E a \in Attempts : Rename(a)
    \/ \E a \in Attempts : WalCommit(a)
    \/ \E a \in Attempts : PlanComplete(a)
    \/ \E a \in Attempts : RecoveryCall(a)
    \/ \E a \in Attempts : FailCommitRm(a)
    \/ \E a \in Attempts : FailRm(a)
    \/ \E a \in Attempts : FailCommitKeep(a)
    \/ \E a \in Attempts : OuterRm(a)
    \/ \E a \in Attempts : OuterCommit(a)
    \/ \E a \in Attempts : Crash(a)
    \/ RecStart
    \/ RecCheck
    \/ RecRename
    \/ RecCommit
    \/ RecCleanCommit
    \/ RecCleanRm
    \/ RecFailCommit

SagaSpec == SagaInit /\ [][SagaNext]_vars

(***************************************************************************)
(* The pipeline orchestrator: app/core/orchestrator.py                     *)
(***************************************************************************)
MaxItems == 2
MaxCycles == 2

Items == 1..MaxItems

\* STATE_MAP
Actionable ==
    {"pending", "scanned", "classified", "enriched", "planned", "executed"}

Service(s) ==
    CASE s = "pending" -> "scanner"
      [] s = "scanned" -> "classifier"
      [] s = "classified" -> "enricher"
      [] s = "enriched" -> "planner"
      [] s = "planned" -> "executor"
      [] s = "executed" -> "validator"

NextState(s) ==
    CASE s = "pending" -> "scanned"
      [] s = "scanned" -> "classified"
      [] s = "classified" -> "enriched"
      [] s = "enriched" -> "planned"
      [] s = "planned" -> "executed"
      [] s = "executed" -> "validated"

FailState(s) == IF s = "classified" THEN "enrichment_failed" ELSE "error"

\* self.enrich_semaphore = asyncio.Semaphore(5)
EnrichLimit == 5

\* self.transcode_semaphore = asyncio.Semaphore(2)
TranscodeLimit == 2

\* the semaphore _process_actionable_items wraps a service's dispatch in
SemOf(svc) ==
    IF svc = "enricher" THEN "enrich"
    ELSE IF svc = "executor" THEN "transcode"
    ELSE "none"

SemLimit(sem) == IF sem = "enrich" THEN EnrichLimit ELSE TranscodeLimit

LiveTask(t) == t.pc \in {"created", "running", "commit"}

\* tasks inside "async with sem"
Holders(sem) ==
    {t \in tasks : SemOf(Service(t.info)) = sem /\ t.pc \in {"running", "commit"}}

\* a semaphore that never runs out (wrong on purpose: C7_SemaphoreLimits
\* must reject it)
SemAlwaysFree(sem) == TRUE

\* asyncio.Semaphore.acquire returns at once while its value is positive
SemFree(sem) == Cardinality(Holders(sem)) < SemLimit(sem)

\* asyncio.Semaphore wakes its waiters first come, first served; the tasks
\* of a cycle enter in the order gather was given them
Earlier(u, t) == u.cycle < t.cycle \/ (u.cycle = t.cycle /\ u.item < t.item)

\* "async with sem" lets the task in
MayEnter(t) ==
    /\ t.pc = "created"
    /\ SemFree(SemOf(Service(t.info)))
    /\ \A u \in tasks :
          (u.pc = "created" /\ SemOf(Service(u.info)) = SemOf(Service(t.info)))
              => ~Earlier(u, t)

\* no saga worker is running
SagaIdle ==
    /\ plan_status = <<>>
    /\ execution_log = <<>>
    /\ wal = <<>>
    /\ dest = <<>>
    /\ tmp = <<>>
    /\ lock = <<>>
    /\ pc = <<>>
    /\ plan = <<>>
    /\ saga_log = <<>>
    /\ wloc = <<>>
    /\ srcc = <<>>
    /\ err = <<>>
    /\ ev = <<>>
    /\ rec = RecIdle
    /\ crashes = 0
    /\ passes = 0

\* items are interchangeable: the initial states are listed up to renaming
StateRank(s) ==
    CASE s = "pending" -> 0
      [] s = "scanned" -> 1
      [] s = "classified" -> 2
      [] s = "enriched" -> 3
      [] s = "planned" -> 4
      [] s = "executing" -> 5
      [] s = "executed" -> 6

\* the items in the database when run_forever starts; an item left in
\* executing by an earlier run may still carry its celery_task_id
OrchInit ==
    /\ SagaIdle
    /\ GuardIdle
    /\ Unsupervised
    /\ state \in [Items -> Actionable \cup {"executing"}]
    /\ \A i, j \in Items : i < j => StateRank(state[i]) <= StateRank(state[j])
    /\ retry_count = [i \in Items |-> 0]
    /\ celery_task_id \in [Items -> BOOLEAN]
    /\ \A i \in Items : celery_task_id[i] => state[i] = "executing"
    /\ opc = "start"
    /\ tasks = {}
    /\ cycle = 0
    /\ raised = FALSE
    /\ state0 = state
    /\ fails = [i \in Items |-> 0]

\* a recovery that resets every item (wrong on purpose:
\* C15_StartupRecovery must reject it)
RecoverInflightAll ==
    /\ UNCHANGED <<sagaVars, guard, supVars, coord>>
    /\ opc = "start"
    /\ state' = [i \in DOMAIN state |-> "planned"]
    /\ opc' = "poll"
    /\ UNCHANGED <<retry_count, celery_task_id, tasks, cycle, raised, state0,
                   fails>>

\* _recover_inflight: items in executing go back to planned; commit
RecoverInflight ==
    /\ UNCHANGED <<sagaVars, guard, supVars, coord>>
    /\ opc = "start"
    /\ state' = [i \in DOMAIN state |->
                    IF state[i] = "executing" THEN "planned" ELSE state[i]]
    /\ opc' = "poll"
    /\ UNCHANGED <<retry_count, celery_task_id, tasks, cycle, raised, state0,
                   fails>>

\* _process_actionable_items: the query, then one _dispatch coroutine per
\* item handed to asyncio.gather; a coroutine behind a semaphore starts in
\* "created", the others run to their first await at once
NewTasks(c) ==
    {[item |-> i, info |-> state[i], cycle |-> c,
      pc |-> IF SemOf(Service(state[i])) = "none" THEN "running" ELSE "created"] :
        i \in {j \in DOMAIN state : state[j] \in Actionable}}

CycleStart ==
    /\ UNCHANGED <<sagaVars, guard, supVars, coord>>
    /\ opc = "poll"
    /\ running
    /\ cycle < MaxCycles
    /\ cycle' = cycle + 1
    /\ state0' = state
    /\ raised' = FALSE
    /\ tasks' = tasks \cup NewTasks(cycle + 1)
    /\ opc' = IF NewTasks(cycle + 1) = {} THEN "poll" ELSE "gather"
    /\ UNCHANGED <<state, retry_count, celery_task_id, fails>>

\* _with_semaphore(self.enrich_semaphore, coro): the enricher's dispatch
\* enters and reaches its first await
TaskStart(t) ==
    /\ UNCHANGED <<sagaVars, guard, supVars, coord>>
    /\ Service(t.info) = "enricher"
    /\ MayEnter(t)
    /\ tasks' = (tasks \ {t}) \cup {[t EXCEPT !.pc = "running"]}
    /\ UNCHANGED <<state, retry_count, celery_task_id, opc, cycle, raised,
                   state0, fails>>

\* an escalation one failure early (wrong on purpose: C16_PerItemDispatch
\* must reject it)
DispatchFailEarly(i, info) ==
    /\ retry_count' = [retry_count EXCEPT ![i] = @ + 1]
    /\ state' = [state EXCEPT ![i] =
                   IF retry_count[i] + 1 >= 3 THEN "error" ELSE FailState(info)]
    /\ fails' = [fails EXCEPT ![i] = @ + 1]

\* the except branch of _dispatch
DispatchFail(i, info) ==
    /\ retry_count' = [retry_count EXCEPT ![i] = @ + 1]
    /\ state' = [state EXCEPT ![i] =
                   IF retry_count[i] + 1 > 3 THEN "error" ELSE FailState(info)]
    /\ fails' = [fails EXCEPT ![i] = @ + 1]

\* the success assignments of _dispatch
DispatchSuccess(i, info) ==
    /\ state' = [state EXCEPT ![i] = NextState(info)]
    /\ retry_count' = [retry_count EXCEPT ![i] = 0]
    /\ fails' = [fails EXCEPT ![i] = 0]

\* _dispatch for scanner, classifier, enricher, planner and validator: the
\* service call returns or raises
DispatchService(t) ==
    /\ UNCHANGED <<sagaVars, guard, supVars, coord>>
    /\ t.pc = "running"
    /\ \/ DispatchSuccess(t.item, t.info)
       \/ DispatchFail(t.item, t.info)
    /\ tasks' = (tasks \ {t}) \cup {[t EXCEPT !.pc = "commit"]}
    /\ UNCHANGED <<celery_task_id, opc, cycle, raised, state0>>

\* _dispatch for the executor without a task id: record one, state
\* executing; nothing is awaited between the semaphore and the commit
DispatchSend(t) ==
    /\ UNCHANGED <<sagaVars, guard, supVars, coord>>
    /\ Service(t.info) = "executor"
    /\ MayEnter(t)
    /\ ~celery_task_id[t.item]
    /\ celery_task_id' = [celery_task_id EXCEPT ![t.item] = TRUE]
    /\ state' = [state EXCEPT ![t.item] = "executing"]
    /\ tasks' = (tasks \ {t}) \cup {[t EXCEPT !.pc = "commit"]}
    /\ UNCHANGED <<retry_count, opc, cycle, raised, state0, fails>>

\* _dispatch for the executor with a task id: AsyncResult(task_id).state is
\* SUCCESS, FAILURE or REVOKED, or anything else (still running); reading
\* it may raise
DispatchMonitor(t) ==
    /\ UNCHANGED <<sagaVars, guard, supVars, coord>>
    /\ Service(t.info) = "executor"
    /\ MayEnter(t)
    /\ celery_task_id[t.item]
    /\ \/ DispatchSuccess(t.item, t.info)
       \/ DispatchFail(t.item, t.info)
       \/ UNCHANGED <<state, retry_count, fails>>
    /\ tasks' = (tasks \ {t}) \cup {[t EXCEPT !.pc = "commit"]}
    /\ UNCHANGED <<celery_task_id, opc, cycle, raised, state0>>

\* await self.db.commit() at the end of _dispatch returns or raises; either
\* way the task ends and leaves its semaphore; gather keeps the first
\* exception of the tasks it is waiting for
TaskCommit(t) ==
    /\ UNCHANGED <<sagaVars, guard, supVars, coord>>
    /\ t.pc = "commit"
    /\ tasks' = tasks \ {t}
    /\ \/ UNCHANGED raised
       \/ raised' = (raised \/ (t.cycle = cycle /\ opc = "gather"))
    /\ UNCHANGED <<state, retry_count, celery_task_id, opc, cycle, state0, fails>>

CycleTasks == {t \in tasks : t.cycle = cycle}

\* await asyncio.gather(*tasks) returns: every task of the cycle is done
CycleJoin ==
    /\ UNCHANGED <<sagaVars, guard, supVars, coord>>
    /\ opc = "gather"
    /\ ~raised
    /\ CycleTasks = {}
    /\ opc' = "poll"
    /\ UNCHANGED <<state, retry_count, celery_task_id, tasks, cycle, raised,
                   state0, fails>>

\* await asyncio.gather(*tasks) raises the first exception of a task; the
\* other tasks keep running; run_forever logs it and sleeps
CycleRaise ==
    /\ UNCHANGED <<sagaVars, guard, supVars, coord>>
    /\ opc = "gather"
    /\ raised
    /\ opc' = "poll"
    /\ UNCHANGED <<state, retry_count, celery_task_id, tasks, cycle, raised,
                   state0, fails>>

OrchNext ==
    \/ RecoverInflight
    \/ CycleStart
    \/ \E t \in tasks : TaskStart(t)
    \/ \E t \in tasks : DispatchService(t)
    \/ \E t \in tasks : DispatchSend(t)
    \/ \E t \in tasks : DispatchMonitor(t)
    \/ \E t \in tasks : TaskCommit(t)
    \/ CycleJoin
    \/ CycleRaise

\* the load that fills both semaphores: one more enricher dispatch than
\* enrichment permits, one more executor dispatch than transcode permits
SemItems == 1..(EnrichLimit + TranscodeLimit + 2)

\* the last item was left in executing, with its task id, by an earlier run
SemInit ==
    /\ SagaIdle
    /\ GuardIdle
    /\ Unsupervised
    /\ state = [i \in SemItems |->
                  IF i <= EnrichLimit + 1 THEN "classified"
                  ELSE IF i < EnrichLimit + TranscodeLimit + 2 THEN "planned"
                  ELSE "executing"]
    /\ retry_count = [i \in SemItems |-> 0]
    /\ celery_task_id = [i \in SemItems |-> state[i] = "executing"]
    /\ opc = "start"
    /\ tasks = {}
    /\ cycle = MaxCycles - 1
    /\ raised = FALSE
    /\ state0 = state
    /\ fails = [i \in SemItems |-> 0]

SemSpec == SemInit /\ [][OrchNext]_vars

OrchSpec == OrchInit /\ [][OrchNext]_vars

\* the largest retry_count an item brings to a dispatch
MaxRetry == 4

\* _dispatch(item, service_name, state_info) for an item with any
\* retry_count: one item, in any state the orchestrator finds at start
DispatchInit ==
    /\ SagaIdle
    /\ GuardIdle
    /\ Unsupervised
    /\ state \in [{1} -> Actionable \cup {"executing"}]
    /\ retry_count \in [{1} -> 0..MaxRetry]
    /\ celery_task_id \in [{1} -> BOOLEAN]
    /\ celery_task_id[1] => state[1] = "executing"
    /\ opc = "start"
    /\ tasks = {}
    /\ cycle = 0
    /\ raised = FALSE
    /\ state0 = state
    /\ fails = [i \in {1} |-> 0]

DispatchSpec == DispatchInit /\ [][OrchNext]_vars

\* class FileState: the values the MediaItem.state column accepts
FileStates ==
    {"pending", "scanning", "scanned", "enriched", "planned", "executed",
     "validated", "audited", "error"}

(* ---- the scan coordinator: app/core/pipeline.py ---- *)
MaxMedia == 3

MediaIds == 1..MaxMedia

\* the coordinator after __init__ and start(): running, an empty queue and
\* the worker task created; a media id may have no MediaItem row
CoordInit ==
    /\ SagaIdle
    /\ GuardIdle
    /\ SupAbsent
    /\ running = FALSE
    /\ state = <<>>
    /\ retry_count = <<>>
    /\ celery_task_id = <<>>
    /\ opc = "off"
    /\ tasks = {}
    /\ cycle = 0
    /\ raised = FALSE
    /\ state0 = <<>>
    /\ fails = <<>>
    /\ \E st \in [MediaIds -> {"pending", "scanned", "absent"}] :
          coord = [running |-> TRUE, queue |-> <<>>, wpc |-> "loop", cur |-> 0,
                   state |-> st, enqueued |-> {}, stopped |-> FALSE,
                   waiting |-> {}, late |-> {}]

CoordFrame == UNCHANGED <<sagaVars, orchVars, guard, supVars>>

\* await coordinator.enqueue(media_id): the watcher enqueues a file once,
\* when it inserts it
CoEnqueue(m) ==
    /\ CoordFrame
    /\ m \notin coord.enqueued
    /\ coord' = [coord EXCEPT !.queue = Append(@, m),
                              !.enqueued = @ \cup {m},
                              !.late = IF coord.stopped THEN @ \cup {m} ELSE @]

\* await coordinator.stop()
CoStop ==
    /\ CoordFrame
    /\ ~coord.stopped
    /\ coord' = [coord EXCEPT !.running = FALSE,
                              !.stopped = TRUE,
                              !.waiting = {coord.queue[k] : k \in 1..Len(coord.queue)}]

\* the worker has the id: it passes the semaphore and process() awaits its
\* query
Take(c) == [c EXCEPT !.cur = Head(c.queue), !.queue = Tail(c.queue),
                     !.wpc = "process"]

\* while self.running: media_id = await self.queue.get()
CoLoop ==
    /\ CoordFrame
    /\ coord.wpc = "loop"
    /\ coord' = IF ~coord.running THEN [coord EXCEPT !.wpc = "exited"]
                ELSE IF coord.queue = <<>> THEN [coord EXCEPT !.wpc = "get"]
                ELSE Take(coord)

\* the queue.get() the worker is suspended in returns an id
CoWake ==
    /\ CoordFrame
    /\ coord.wpc = "get"
    /\ coord.queue # <<>>
    /\ coord' = Take(coord)

\* process(media_id) up to the scanner: no row or not pending returns;
\* otherwise state = scanning; commit, which may raise out of worker_loop
CoProcess ==
    /\ CoordFrame
    /\ coord.wpc = "process"
    /\ IF coord.state[coord.cur] # "pending"
       THEN coord' = [coord EXCEPT !.wpc = "loop", !.cur = 0]
       ELSE \/ coord' = [coord EXCEPT !.state[coord.cur] = "scanning",
                                      !.wpc = "scan"]
            \/ coord' = [coord EXCEPT !.wpc = "died"]

\* await self.scanner.run(media_id): the scanner leaves the item scanned or
\* in error, or raises and process sets error; then queue.task_done()
CoScan ==
    /\ CoordFrame
    /\ coord.wpc = "scan"
    /\ \E st \in {"scanned", "error"} :
          coord' = [coord EXCEPT !.state[coord.cur] = st, !.wpc = "loop",
                                 !.cur = 0]

CoordNext ==
    \/ \E m \in MediaIds : CoEnqueue(m)
    \/ CoStop
    \/ CoLoop
    \/ CoWake
    \/ CoProcess
    \/ CoScan

CoordSpec == CoordInit /\ [][CoordNext]_vars

(* ---- the supervisor: app/core/supervisor.py ---- *)
\* DaemonSupervisor.__init__ (line 30) evaluates datetime.now(datetime.UTC)
\* with datetime bound to the class, which has no attribute UTC: the
\* constructor raises on every interpreter, and no supervisor object comes
\* out of it.  The model starts from the object the unit tests and the run
\* loop presume: the fields of lines 21-29, and _last_heartbeat holding what
\* line 30 is written to store, a timezone-aware time.  With it line 89, which
\* subtracts that time from the naive datetime.utcnow(), raises TypeError;
\* the call at line 53 is outside the try, so it ends run().

\* self._max_backoff
MaxBackoff == 300

\* the longest run of backoff waits examined
MaxWaits == 11

Min(a, b) == IF a < b THEN a ELSE b

\* wait = min(self._backoff, self._max_backoff)
BackoffWaitValue(b) == Min(b, MaxBackoff)

\* a doubling without the cap (wrong on purpose: C24_Backoff must reject it)
BackoffNextUncapped(b) == b * 2

\* self._backoff = min(self._backoff * 2, self._max_backoff)
BackoffNext(b) == Min(b * 2, MaxBackoff)

\* what a health check finds at one path: reachable with at least 5% free,
\* reachable with less, or os.path.exists false
HealthStatus == {"ok", "low", "missing"}

\* the for loop of _health_checks over [staging_dir, output_dir]: the first
\* path that is not ok decides
HealthResult(st) == IF st[1] # "ok" THEN st[1] ELSE st[2]

\* the first part of _backoff_wait, up to the sleep: sup.waits records the
\* seconds slept, and 0 for a clean return of run_forever
SleepBegin(s) == [s EXCEPT !.waits = Append(@, BackoffWaitValue(s.backoff))]

\* the except branch of run, up to the sleep of _backoff_wait
Caught(s) == SleepBegin([s EXCEPT !.crash = @ + 1])

\* run() has registered its signal handlers and entered its loop; the
\* orchestrator is constructed (running = False) and has not run
SupInit ==
    /\ SagaIdle
    /\ GuardIdle
    /\ state \in [Items -> Actionable \cup {"executing"}]
    /\ \A i, j \in Items : i < j => StateRank(state[i]) <= StateRank(state[j])
    /\ retry_count = [i \in Items |-> 0]
    /\ celery_task_id \in [Items -> BOOLEAN]
    /\ \A i \in Items : celery_task_id[i] => state[i] = "executing"
    /\ opc = "off"
    /\ tasks = {}
    /\ cycle = 0
    /\ raised = FALSE
    /\ state0 = state
    /\ fails = [i \in Items |-> 0]
    /\ running = FALSE
    /\ CoordAbsent
    /\ sup = [pc |-> "hc", shutdown |-> FALSE, backoff |-> 1, waits |-> <<>>,
              crash |-> 0, health |-> "none", stop_cycle |-> 0]

\* _health_checks returns without sleeping, or reaches the sleep of its
\* _backoff_wait; on ok, run goes on into run_forever up to its first await
SupHealthChecks ==
    /\ UNCHANGED <<coord, sagaVars, guard>>
    /\ sup.pc = "hc"
    /\ \E st \in [1..2 -> HealthStatus] :
          LET r == HealthResult(st) IN
          IF r = "ok"
          THEN /\ sup' = [sup EXCEPT !.pc = "orch", !.health = r]
               /\ running' = TRUE
               /\ opc' = "start"
          ELSE /\ sup' = SleepBegin([sup EXCEPT !.pc = "hc_sleep", !.health = r])
               /\ running' = IF r = "low" THEN FALSE ELSE running
               /\ UNCHANGED opc
    /\ UNCHANGED <<state, retry_count, celery_task_id, tasks, cycle, raised,
                   state0, fails>>

\* shutil.disk_usage raises inside _health_checks: run catches it
SupHealthRaise ==
    /\ UNCHANGED <<coord, sagaVars, guard, orchVars, running>>
    /\ sup.pc = "hc"
    /\ sup' = Caught([sup EXCEPT !.pc = "sleep"])

\* the sleep inside _health_checks ends: _backoff is doubled, _health_checks
\* returns and run calls run_forever, which sets running = True
SupHealthWake ==
    /\ UNCHANGED <<coord, sagaVars, guard>>
    /\ sup.pc = "hc_sleep"
    /\ sup' = [sup EXCEPT !.pc = "orch", !.backoff = BackoffNext(@)]
    /\ running' = TRUE
    /\ opc' = "start"
    /\ UNCHANGED <<state, retry_count, celery_task_id, tasks, cycle, raised,
                   state0, fails>>

\* _recover_inflight raises (its query or its commit): run_forever has no
\* try around it, run catches the exception
SupRecoverRaise ==
    /\ UNCHANGED <<coord, sagaVars, guard, running>>
    /\ sup.pc = "orch"
    /\ opc = "start"
    /\ sup' = Caught([sup EXCEPT !.pc = "sleep"])
    /\ opc' = "off"
    /\ UNCHANGED <<state, retry_count, celery_task_id, tasks, cycle, raised,
                   state0, fails>>

\* while self.running is false after the poll sleep: run_forever returns,
\* run resets _backoff and calls _maybe_heartbeat, which raises
SupReturn ==
    /\ UNCHANGED <<coord, sagaVars, guard, running>>
    /\ sup.pc = "orch"
    /\ opc = "poll"
    /\ ~running
    /\ sup' = [sup EXCEPT !.pc = "died", !.backoff = 1, !.waits = Append(@, 0)]
    /\ opc' = "off"
    /\ UNCHANGED <<state, retry_count, celery_task_id, tasks, cycle, raised,
                   state0, fails>>

\* the sleep of the except branch ends: _backoff is doubled, and run calls
\* _maybe_heartbeat, which raises
SupWake ==
    /\ UNCHANGED <<coord, sagaVars, guard, orchVars, running>>
    /\ sup.pc = "sleep"
    /\ sup' = [sup EXCEPT !.pc = "died", !.backoff = BackoffNext(@)]

\* the signal handler's task runs shutdown() while run is suspended
SupShutdown ==
    /\ UNCHANGED <<coord, sagaVars, guard, orchVars>>
    /\ sup.pc \in {"hc_sleep", "orch", "sleep"}
    /\ ~sup.shutdown
    /\ sup' = [sup EXCEPT !.shutdown = TRUE, !.stop_cycle = cycle]
    /\ running' = FALSE

SupNext ==
    \/ SupHealthChecks
    \/ SupHealthRaise
    \/ SupHealthWake
    \/ SupRecoverRaise
    \/ SupReturn
    \/ SupWake
    \/ SupShutdown
    \/ (sup.pc = "orch" /\ OrchNext)

SupSpec == SupInit /\ [][SupNext]_vars

\* _backoff_wait and the reset of line 47 applied to one supervisor in any
\* order, as consecutive failures and clean runs produce them
BackoffInit ==
    /\ SagaIdle
    /\ GuardIdle
    /\ state = <<>>
    /\ retry_count = <<>>
    /\ celery_task_id = <<>>
    /\ opc = "off"
    /\ tasks = {}
    /\ cycle = 0
    /\ raised = FALSE
    /\ state0 = <<>>
    /\ fails = <<>>
    /\ running = FALSE
    /\ CoordAbsent
    /\ sup = [pc |-> "backoff", shutdown |-> FALSE, backoff |-> 1, waits |-> <<>>,
              crash |-> 0, health |-> "none", stop_cycle |-> 0]

\* await self._backoff_wait()
BackoffWait ==
    /\ UNCHANGED <<coord, sagaVars, guard, orchVars, running>>
    /\ sup.pc = "backoff"
    /\ Len(sup.waits) < MaxWaits
    /\ sup' = [SleepBegin(sup) EXCEPT !.backoff = BackoffNext(@)]

\* self._backoff = 1 after run_forever returned
BackoffReset ==
    /\ UNCHANGED <<coord, sagaVars, guard, orchVars, running>>
    /\ sup.pc = "backoff"
    /\ Len(sup.waits) < MaxWaits
    /\ sup' = [sup EXCEPT !.backoff = 1, !.waits = Append(@, 0)]

BackoffNextStep == BackoffWait \/ BackoffReset

BackoffSpec == BackoffInit /\ [][BackoffNextStep]_vars

(***************************************************************************)
(* The quality guardrail: VMAFGuardrailService.check_and_update_quality    *)
(* (app/services/vmaf_guardrail_service.py)                                *)
(***************************************************************************)

\* min_vmaf: float = 90.0, in tenths of a point
MinVmaf == 900

\* a score of QualityMetrics: Optional[float], in tenths of a point
NoScore == [present |-> FALSE, value |-> 0]

Score(v) == [present |-> TRUE, value |-> v]

\* the scores a probe may return; run_vmaf_ffmpeg returns QualityMetrics()
\* (both absent) when the tool fails
VmafScores == {NoScore, Score(850), Score(899), Score(900), Score(950)}

PsnrScores == {NoScore, Score(400)}

\* the characters of a bitrate string
DigitChars == {"0", "1", "2", "3", "4", "5", "6", "7", "8", "9"}

DigitVal(c) ==
    CASE c = "0" -> 0 [] c = "1" -> 1 [] c = "2" -> 2 [] c = "3" -> 3
      [] c = "4" -> 4 [] c = "5" -> 5 [] c = "6" -> 6 [] c = "7" -> 7
      [] c = "8" -> 8 [] c = "9" -> 9

DigitChar(d) ==
    CASE d = 0 -> "0" [] d = 1 -> "1" [] d = 2 -> "2" [] d = 3 -> "3"
      [] d = 4 -> "4" [] d = 5 -> "5" [] d = 6 -> "6" [] d = 7 -> "7"
      [] d = 8 -> "8" [] d = 9 -> "9"

\* int(s) succeeds on a non-empty string of decimal digits
IsInt(str) == str # <<>> /\ \A k \in 1..Len(str) : str[k] \in DigitChars

\* int(s)
RECURSIVE ParseInt(_)
ParseInt(str) ==
    IF str = <<>> THEN 0
    ELSE 10 * ParseInt(SubSeq(str, 1, Len(str) - 1)) + DigitVal(str[Len(str)])

\* str(n) for n >= 0
RECURSIVE FormatInt(_)
FormatInt(n) ==
    IF n < 10 THEN <<DigitChar(n)>>
    ELSE FormatInt(n \div 10) \o <<DigitChar(n % 10)>>

\* .get("bitrate", "1000")
DefaultBitrate == <<"1", "0", "0", "0">>

\* plan.ffmpeg_args (a JSON column): None, a list of strings as the planners
\* write it, or a dict as the guardrail reads it; a dict may hold a bitrate
\* string and may hold other keys
Bitrates ==
    {<<"1", "0", "0", "0">>, <<"1", "2", "0", "0">>, <<"0", "5", "0">>,
     <<"1", "9", "2", "k">>, <<>>}

FfmpegArgs ==
    {[kind |-> "none", nonempty |-> FALSE, has_bitrate |-> FALSE, bitrate |-> <<>>]}
    \cup {[kind |-> "list", nonempty |-> ne, has_bitrate |-> FALSE, bitrate |-> <<>>] :
            ne \in BOOLEAN}
    \cup {[kind |-> "dict", nonempty |-> ne, has_bitrate |-> FALSE, bitrate |-> <<>>] :
            ne \in BOOLEAN}
    \cup {[kind |-> "dict", nonempty |-> TRUE, has_bitrate |-> TRUE, bitrate |-> b] :
            b \in Bitrates}

\* if plan.ffmpeg_args:
Truthy(args) == args.kind # "none" /\ args.nonempty

\* a gate that also fails a score at the threshold (wrong on purpose:
\* C13_QualityPass must reject it)
BelowOrAtGate(vmaf, min) == vmaf.present /\ vmaf.value <= min

\* metrics.vmaf is not None and metrics.vmaf < min_vmaf
BelowGate(vmaf, min) == vmaf.present /\ vmaf.value < min

\* the bitrate string the doubling reads
ReadBitrate(args) == IF args.has_bitrate THEN args.bitrate ELSE DefaultBitrate

\* plan.ffmpeg_args["bitrate"] = str(int(plan.ffmpeg_args.get("bitrate",
\* "1000")) * 2) raises on a list (no .get) and on a string int() rejects
DoublingRaises(args) == args.kind = "list" \/ ~IsInt(ReadBitrate(args))

Doubled(args) ==
    [args EXCEPT !.has_bitrate = TRUE,
                 !.bitrate = FormatInt(2 * ParseInt(ReadBitrate(args)))]

\* the plan a caller hands over, before the probe runs
GuardInit ==
    /\ SagaIdle
    /\ OrchIdle
    /\ \E a \in FfmpegArgs, st \in {"executing", "completed"}, f \in BOOLEAN :
          guard = [pc |-> "probe",
                   args |-> a,
                   args0 |-> a,
                   failed_quality_check |-> f,
                   plan_status |-> st,
                   quality_metrics |-> [stored |-> FALSE, vmaf |-> NoScore, psnr |-> NoScore],
                   vmaf |-> NoScore,
                   db |-> [written |-> FALSE, plan_status |-> st,
                           failed_quality_check |-> f, args |-> a]]

\* metrics = await self.vmaf_func(src_path, out_path)
GuardProbe ==
    /\ UNCHANGED <<sagaVars, orchVars, supVars, coord>>
    /\ guard.pc = "probe"
    /\ \E v \in VmafScores, q \in PsnrScores :
          guard' = [guard EXCEPT !.pc = "decide",
                                 !.vmaf = v,
                                 !.quality_metrics = [stored |-> FALSE, vmaf |-> v, psnr |-> q]]

\* plan.quality_metrics = metrics.dict(); the decision; an exception in the
\* doubling leaves the plan as far as the assignments got
GuardDecide ==
    /\ UNCHANGED <<sagaVars, orchVars, supVars, coord>>
    /\ guard.pc = "decide"
    /\ LET g == [guard EXCEPT !.quality_metrics.stored = TRUE] IN
       IF BelowGate(guard.vmaf, MinVmaf)
       THEN IF Truthy(guard.args)
            THEN IF DoublingRaises(guard.args)
                 THEN guard' = [g EXCEPT !.pc = "raised",
                                         !.failed_quality_check = TRUE]
                 ELSE guard' = [g EXCEPT !.pc = "persist",
                                         !.failed_quality_check = TRUE,
                                         !.args = Doubled(guard.args),
                                         !.plan_status = "failed"]
            ELSE guard' = [g EXCEPT !.pc = "persist",
                                    !.failed_quality_check = TRUE,
                                    !.plan_status = "failed"]
       ELSE guard' = [g EXCEPT !.pc = "persist",
                               !.failed_quality_check = FALSE,
                               !.plan_status = "completed"]

\* update(NormalizationPlan).values(...); commit; return plan
GuardPersist ==
    /\ UNCHANGED <<sagaVars, orchVars, supVars, coord>>
    /\ guard.pc = "persist"
    /\ \/ guard' = [guard EXCEPT !.pc = "returned",
                                 !.db = [written |-> TRUE,
                                         plan_status |-> guard.plan_status,
                                         failed_quality_check |-> guard.failed_quality_check,
                                         args |-> guard.args]]
       \/ \* the execute or the commit raises
          guard' = [guard EXCEPT !.pc = "raised"]

GuardNext ==
    \/ GuardProbe
    \/ GuardDecide
    \/ GuardPersist

GuardSpec == GuardInit /\ [][GuardNext]_vars

(* ---- the guardrail beside the orchestrator ---- *)
\* the plan of an item that an earlier run left in executing, with its task
\* id, is handed to check_and_update_quality while run_forever starts;
\* plan.media_item_id names the item, the encode arguments carry a bitrate
\* that int() accepts
QualityInit ==
    /\ SagaIdle
    /\ Unsupervised
    /\ state \in [Items -> Actionable \cup {"executing"}]
    /\ \A i, j \in Items : i < j => StateRank(state[i]) <= StateRank(state[j])
    /\ retry_count = [i \in Items |-> 0]
    /\ celery_task_id \in [Items -> BOOLEAN]
    /\ \A i \in Items : celery_task_id[i] => state[i] = "executing"
    /\ opc = "start"
    /\ tasks = {}
    /\ cycle = 0
    /\ raised = FALSE
    /\ state0 = state
    /\ fails = [i \in Items |-> 0]
    /\ \E i \in Items, a \in FfmpegArgs :
          /\ state[i] = "executing"
          /\ celery_task_id[i]
          /\ a.has_bitrate
          /\ IsInt(a.bitrate)
          /\ guard = [pc |-> "probe",
                      item |-> i,
                      args |-> a,
                      args0 |-> a,
                      failed_quality_check |-> FALSE,
                      plan_status |-> "executing",
                      quality_metrics |-> [stored |-> FALSE, vmaf |-> NoScore,
                                           psnr |-> NoScore],
                      vmaf |-> NoScore,
                      db |-> [written |-> FALSE, plan_status |-> "executing",
                              failed_quality_check |-> FALSE, args |-> a]]

QualityNext ==
    \/ OrchNext
    \/ GuardNext

QualitySpec == QualityInit /\ [][QualityNext]_vars

(***************************************************************************)
(* The claims                                                              *)
(***************************************************************************)

C2_NoPartialDest == \A p \in Plans : dest[p] # "partial"

\* C3: once a recovery pass has finished, every row that an unclean shutdown
\* had left prepared, and that the pass found, is committed or cleaned
C3_RecoveryResolves ==
    (rec.pc = "idle" /\ passes >= 1) =>
        \A r \in rec.seen : wal[r].status \in {"committed", "cleaned"}

\* C4: an attempt that found the destination present and non-empty has, when
\* it ends, changed no file and written no WAL row
C4_SkipTouchesNothing ==
    \A a \in Attempts :
        (Ended(a) /\ ev[a] # <<>> /\ Head(ev[a]) = "skip") =>
            /\ saga_log[a] = 0
            /\ \A k \in 1..Len(ev[a]) : ev[a][k] \in {"skip", "plan_completed"}

\* C5: between two polls, an item that the cycle's query found in an
\* actionable state is in its table next-state, its table failure-state,
\* error, or the state it had
C5_CycleOutcome ==
    (opc = "poll" /\ cycle >= 1) =>
        \A i \in DOMAIN state :
            state0[i] \in Actionable =>
                state[i] \in {state0[i], NextState(state0[i]),
                              FailState(state0[i]), "error"}

\* C6: an item whose dispatch has failed is either still in line for another
\* try (actionable, or a dispatch of it is running) or has been escalated to
\* error with retry_count > 3
C6_RetryEscalation ==
    \A i \in DOMAIN state :
        fails[i] >= 1 =>
            \/ state[i] \in Actionable
            \/ \E t \in tasks : t.item = i
            \/ state[i] = "error" /\ retry_count[i] > 3

\* C7: at most TranscodeLimit executor dispatches and at most EnrichLimit
\* enricher dispatches are inside their semaphore at any time, and a dispatch
\* at the head of its queue enters as soon as its own kind has a free place,
\* whatever the other kind is doing
C7_SemaphoreLimits ==
    LET Running(svc) ==
            {t \in tasks : Service(t.info) = svc /\ t.pc \in {"running", "commit"}}
        Limit(svc) == IF svc = "executor" THEN TranscodeLimit ELSE EnrichLimit
        Head1(t) ==
            /\ t.pc = "created"
            /\ \A u \in tasks :
                  (u.pc = "created" /\ Service(u.info) = Service(t.info))
                      => ~Earlier(u, t)
    IN  /\ Cardinality(Running("executor")) <= TranscodeLimit
        /\ Cardinality(Running("enricher")) <= EnrichLimit
        /\ \A t \in tasks :
              (Head1(t) /\ Cardinality(Running(Service(t.info))) < Limit(Service(t.info)))
                  => ENABLED (TaskStart(t) \/ DispatchSend(t) \/ DispatchMonitor(t))

\* C7, its case: both semaphores are full, each with a dispatch waiting
C7_Witness ==
    /\ Cardinality({t \in tasks : Service(t.info) = "executor" /\ t.pc = "commit"})
          = TranscodeLimit
    /\ Cardinality({t \in tasks : Service(t.info) = "enricher"
                                     /\ t.pc \in {"running", "commit"}})
          = EnrichLimit
    /\ \E t \in tasks : Service(t.info) = "executor" /\ t.pc = "created"
    /\ \E t \in tasks : Service(t.info) = "enricher" /\ t.pc = "created"

\* C8: no item ever has two dispatch tasks at once
C8_OneTaskPerItem ==
    \A t, u \in tasks : t.item = u.item => t = u

\* C9: the step that ends an attempt after a lock timeout leaves
\* plan_status=failed and execution_log="Lock timeout"; neither that step
\* nor the timeout itself changes a WAL row, the temp file or the
\* destination, and the attempt has written no WAL row
C9_LockTimeoutFailsClosed ==
    [][\A a \in Attempts :
          /\ (pc[a] = "acquire" /\ pc'[a] = "timeout_commit") =>
                /\ wal' = wal /\ dest' = dest /\ tmp' = tmp
                /\ saga_log'[a] = 0 /\ ev'[a] = <<>>
          /\ (pc[a] = "timeout_commit" /\ pc'[a] = "returned") =>
                /\ plan_status'[plan[a]] = "failed"
                /\ execution_log'[plan[a]] = "Lock timeout"
                /\ wal' = wal /\ dest' = dest /\ tmp' = tmp
                /\ saga_log'[a] = 0 /\ ev'[a] = <<>>
                /\ \A p \in Plans : lock'[p] # a]_vars

\* C9, its case: an attempt timed out on the lock and has returned
C9_Witness ==
    \E a \in Attempts :
        /\ pc[a] = "returned"
        /\ err[a] = "Lock timeout"
        /\ plan_status[plan[a]] = "failed"
        /\ execution_log[plan[a]] = "Lock timeout"

\* C10: the lock of a destination is only ever held by an attempt that is
\* inside its with block; an attempt that has returned or raised, or is in
\* one of the handlers outside the block, holds no lock
C10_LockReleased ==
    \A p \in Plans :
        lock[p] # 0 =>
            /\ plan[lock[p]] = p
            /\ pc[lock[p]] \in
                  {"idem_check", "skip_commit", "wal_prepare", "copy_begin",
                   "copy_end", "verify", "ffmpeg", "rename", "wal_commit",
                   "plan_complete", "fail_commit_rm", "fail_rm",
                   "fail_commit_keep"}

\* C10, its case: an attempt has raised out of its with block and a later
\* attempt for the same destination holds the lock
C10_Witness ==
    \E a, b \in Attempts :
        /\ a # b
        /\ plan[a] = plan[b]
        /\ pc[a] = "raised"
        /\ lock[plan[b]] = b

C12_QualityFail ==
    (guard.pc \in {"persist", "returned", "raised"} /\ BelowGate(guard.vmaf, MinVmaf)) =>
        /\ guard.failed_quality_check
        /\ guard.plan_status = "failed"
        /\ guard.quality_metrics.stored
        /\ (guard.args0.has_bitrate /\ IsInt(guard.args0.bitrate)) =>
              guard.args.bitrate = FormatInt(2 * ParseInt(guard.args0.bitrate))

\* C13: once the decision is made on a perceptual score that is present and
\* at or above the threshold, the plan has failed_quality_check = false,
\* plan_status = completed and the encode arguments it came with
C13_QualityPass ==
    (guard.pc \in {"persist", "returned", "raised"}
        /\ guard.vmaf.present /\ guard.vmaf.value >= MinVmaf) =>
        /\ ~guard.failed_quality_check
        /\ guard.plan_status = "completed"
        /\ guard.args = guard.args0
        /\ guard.pc = "returned" =>
              /\ guard.db.written
              /\ ~guard.db.failed_quality_check
              /\ guard.db.plan_status = "completed"
              /\ guard.db.args = guard.args0

\* C13, its case: a plan with a bitrate, flagged by an earlier check, passes
\* with a score exactly at the threshold
C13_Witness ==
    /\ guard.pc = "returned"
    /\ guard.vmaf = Score(MinVmaf)
    /\ guard.args0.has_bitrate
    /\ guard.db.written
    /\ guard.db.plan_status = "completed"

\* C14: in an attempt that renamed its temp file and set plan_status to
\* completed, a quality check lies between the two
C14_GuardInCommitPath ==
    \A a \in Attempts :
        \A i, j \in 1..Len(ev[a]) :
            (ev[a][i] = "rename" /\ ev[a][j] = "plan_completed") =>
                \E k \in (i + 1)..(j - 1) : ev[a][k] = "quality_check"

\* C15: the step that ends startup recovery turns every executing item into
\* planned and leaves every other item's state as it was, and no poll cycle
\* or dispatch exists before that step
C15_StartupRecovery ==
    /\ [](opc = "start" => (cycle = 0 /\ tasks = {}))
    /\ [][(opc = "start" /\ opc' # "start") =>
             \A i \in DOMAIN state :
                 state'[i] = IF state[i] = "executing" THEN "planned" ELSE state[i]]_vars

\* C15, its case: recovery is over, no cycle has started; an item that was
\* executing is planned and another item kept its state
C15_Witness ==
    /\ opc = "poll"
    /\ cycle = 0
    /\ \E i, j \in DOMAIN state :
          /\ state0[i] = "executing" /\ state[i] = "planned"
          /\ state0[j] # "executing" /\ state[j] = state0[j]

\* C16: when a dispatch reaches its commit, the item has either advanced to
\* the table's next-state with retry_count 0, or has retry_count one higher
\* and is in the table's failure-state if that count is at most 3 and in
\* error if it exceeds 3; an executor dispatch may instead have sent the
\* execution (no outcome yet) or found it still running
C16_PerItemDispatch ==
    [][\A t \in tasks :
          (t.pc # "commit" /\ [t EXCEPT !.pc = "commit"] \in tasks') =>
             LET i == t.item IN
             \/ /\ state'[i] = NextState(t.info)
                /\ retry_count'[i] = 0
             \/ /\ retry_count'[i] = retry_count[i] + 1
                /\ state'[i] = IF retry_count'[i] > 3 THEN "error"
                               ELSE FailState(t.info)
             \/ /\ Service(t.info) = "executor"
                /\ retry_count'[i] = retry_count[i]
                /\ state'[i] = IF celery_task_id[i] THEN state[i] ELSE "executing"]_vars

\* C16, its case: the fourth failure of an enricher dispatch has put the
\* item in error instead of enrichment_failed
C16_Witness ==
    \E t \in tasks :
        /\ t.pc = "commit"
        /\ t.info = "classified"
        /\ retry_count[t.item] = 4
        /\ state[t.item] = "error"

\* C17: every value the orchestrator assigns to an item's state is a member
\* of FileState
C17_StateInEnum ==
    [][\A i \in DOMAIN state :
          state'[i] # state[i] => state'[i] \in FileStates]_vars

\* C18: in a running orchestrator an item in executing is on its way to
\* executed: a dispatch of it is running, or the next poll will select it
C18_ExecutingProceeds ==
    \A i \in DOMAIN state :
        (opc # "start" /\ state[i] = "executing") =>
            \/ state[i] \in Actionable
            \/ \E t \in tasks : t.item = i

\* C19: when a poll cycle has ended, every dispatch it created has finished
C19_CycleJoinsAll ==
    (opc = "poll" /\ cycle >= 1) => CycleTasks = {}

\* C20: once an item is in error, no step changes its state or its
\* retry_count
C20_ErrorDurable ==
    [][\A i \in DOMAIN state :
          state[i] = "error" =>
              (state'[i] = "error" /\ retry_count'[i] = retry_count[i])]_vars

\* C21: an item in enrichment_failed with retry_count at most 3 is on its
\* way to another dispatch: a dispatch of it is still running, or the next
\* poll will select it
C21_FailureStateRetried ==
    \A i \in DOMAIN state :
        (state[i] = "enrichment_failed" /\ retry_count[i] <= 3) =>
            \/ state[i] \in Actionable
            \/ \E t \in tasks : t.item = i

\* C22: once shutdown() has run, no poll cycle starts beyond those started
\* when it ran
C22_CooperativeShutdown ==
    sup.shutdown => cycle = sup.stop_cycle

\* C23: after a health check that found a volume under 5% free, and until a
\* health check finds both volumes ok, the orchestrator is paused and starts
\* no poll cycle
C23_LowDiskPause ==
    sup.health = "low" => (~running /\ cycle = 0)

\* C24: the first wait, and every wait that follows a clean return, is 1;
\* every other wait is twice the wait before it, capped at 300; the stored
\* value is what the next wait will be, never exceeds 300, and is 1 after a
\* clean return
C24_Backoff ==
    LET w == sup.waits IN
    /\ \A k \in 1..Len(w) :
          w[k] # 0 =>
             w[k] = IF k = 1 \/ w[k - 1] = 0 THEN 1 ELSE Min(2 * w[k - 1], 300)
    /\ sup.backoff <= 300
    /\ sup.backoff = IF w = <<>> \/ w[Len(w)] = 0 THEN 1
                     ELSE Min(2 * w[Len(w)], 300)

\* C24, its case: eleven consecutive failures have waited 1, 2, 4, ..., 256,
\* 300, 300
C24_Witness ==
    sup.waits = <<1, 2, 4, 8, 16, 32, 64, 128, 256, 300, 300>>

\* C25: an exception that run caught never ends the supervisor loop
C25_FailureBoundary ==
    sup.crash > 0 => sup.pc # "died"

\* C26: an execution that ended with the plan completed leaves a committed
\* WAL row of that plan and a file at the target path
C26_ExecutionCommits ==
    \A a \in Attempts :
        (pc[a] = "returned"
            /\ \E k \in 1..Len(ev[a]) : ev[a][k] = "plan_completed") =>
            /\ \E r \in 1..Len(wal) :
                  wal[r].plan = plan[a] /\ wal[r].status = "committed"
            /\ Exists(dest[plan[a]])

\* C27: when an attempt that wrote a WAL row has failed, its caller gets the
\* exception, the row is failed and the attempt does not hold the lock
C27_ErrorAfterBookkeeping ==
    \A a \in Attempts :
        (pc[a] = "raised" /\ saga_log[a] # 0) =>
            /\ EntryOutcome(a) = "raises"
            /\ wal[saga_log[a]].status = "failed"
            /\ \A p \in Plans : lock[p] # a

\* C28: the step that marks the WAL row failed after a verification failure
\* leaves no file at the temp path and releases the lock, and the attempt
\* ends with plan_status failed
C28_VerifyFailureRollback ==
    [][\A a \in Attempts :
          /\ (pc[a] = "fail_commit_keep" /\ pc'[a] = "outer_rm") =>
                /\ wal'[saga_log[a]].status = "failed"
                /\ tmp'[plan[a]] = "none"
                /\ lock'[plan[a]] # a
          /\ (pc[a] = "outer_commit" /\ pc'[a] = "raised"
                 /\ err[a] = "tmp file missing or empty") =>
                plan_status'[plan[a]] = "failed"]_vars

\* C29: a WAL row is never removed; its status changes only from prepared,
\* and only to committed, failed or cleaned; only the recovery pass sets
\* cleaned
C29_WalStateMachine ==
    [][/\ Len(wal') >= Len(wal)
       /\ \A r \in 1..Len(wal) :
             wal'[r].status # wal[r].status =>
                /\ wal[r].status = "prepared"
                /\ wal'[r].status \in {"committed", "failed", "cleaned"}
                /\ wal'[r].status = "cleaned" => rec.pc = "clean_commit"]_vars

\* C30: a recovery pass has run before any attempt starts
C30_RecoveryAtStartup ==
    \A a \in Attempts : pc[a] # "idle" => passes >= 1

\* C34: the step that sets plan_status to executing is taken by an attempt
\* that holds the lock of its destination
C34_ExecutingAfterLock ==
    [][\A a \in Attempts :
          (pc[a] = "set_executing" /\ pc'[a] = "acquire") =>
              lock[plan[a]] = a]_vars

\* C35: an attempt between acquiring and releasing the lock of its
\* destination is the holder of that lock, so no two attempts for one
\* destination are there together; an attempt writes the temp file or renames
\* only as the holder; an attempt gives up waiting only when another attempt
\* for the same destination holds the lock
C35_MutualExclusion ==
    /\ [](\A a \in Attempts :
            pc[a] \in {"idem_check", "skip_commit", "wal_prepare", "copy_begin",
                       "copy_end", "verify", "ffmpeg", "rename", "wal_commit",
                       "plan_complete", "fail_commit_rm", "fail_rm",
                       "fail_commit_keep"} => lock[plan[a]] = a)
    /\ [][\A a \in Attempts :
            /\ (Len(ev'[a]) > Len(ev[a])
                  /\ ev'[a][Len(ev'[a])] \in {"tmp_write", "rename"}) =>
                     lock[plan[a]] = a
            /\ (pc[a] = "acquire" /\ pc'[a] = "timeout_commit") =>
                  /\ lock[plan[a]] \notin {0, a}
                  /\ plan[lock[plan[a]]] = plan[a]]_vars

\* C35, its case: two attempts for one destination, one copying under the
\* lock and one waiting for it, while an attempt for another destination
\* could take its own lock
C35_Witness ==
    \E a, b \in Attempts :
        /\ a # b
        /\ plan[a] = plan[b]
        /\ pc[a] = "copy_end"
        /\ lock[plan[a]] = a
        /\ pc[b] = "acquire"
        /\ \E q \in Plans : q # plan[a] /\ lock[q] = 0

\* C36: an attempt that found the destination present and non-empty never
\* removes it
C36_KeepsExistingDest ==
    \A a \in Attempts :
        (ev[a] # <<>> /\ Head(ev[a]) = "skip") =>
            \A k \in 1..Len(ev[a]) : ev[a][k] # "dest_remove"

\* C37: the destination of a committed WAL row exists and is not empty
C37_CommittedHasDest ==
    \A r \in 1..Len(wal) :
        wal[r].status = "committed" => NonEmpty(dest[wal[r].plan])

C39_NoWorkAfterStop ==
    [][\A m \in coord.waiting \cup coord.late :
          coord.state[m] = "pending" => coord'.state[m] = "pending"]_vars

\* C33: the decision on an absent perceptual score records neither a pass
\* nor a fail: the plan's failed_quality_check and plan_status are not set
\* to (true, failed) and not set to (false, completed)
C33_AbsentNeitherPassNorFail ==
    [][(guard.pc = "decide" /\ ~guard.vmaf.present /\ guard'.pc # "decide") =>
          \/ /\ guard'.failed_quality_check = guard.failed_quality_check
             /\ guard'.plan_status = guard.plan_status
          \/ /\ ~(guard'.failed_quality_check /\ guard'.plan_status = "failed")
             /\ ~(~guard'.failed_quality_check /\ guard'.plan_status = "completed")]_vars

\* C31: once the guardrail has recorded a plan as failed, with the bitrate
\* doubled, the plan's item is held back for another execution: no step
\* releases it to validated
C31_QualityFailureRetried ==
    [][(/\ guard.pc = "returned"
        /\ guard.db.failed_quality_check
        /\ guard.args0.has_bitrate
        /\ IsInt(guard.args0.bitrate)
        /\ guard.db.args.bitrate = FormatInt(2 * ParseInt(guard.args0.bitrate))) =>
          (state'[guard.item] = "validated" => state[guard.item] = "validated")]_vars

\* C32: a quality failure is charged to the bounded handler-retry counter:
\* the step that records it increments the item's retry_count, or the item
\* is in error
C32_QualityFailureCounted ==
    [][(guard.pc = "persist" /\ guard'.pc = "returned"
          /\ guard'.db.failed_quality_check) =>
          \/ retry_count'[guard.item] = retry_count[guard.item] + 1
          \/ state'[guard.item] = "error"]_vars

====
